---- MODULE Spec2Model ----
(***************************************************************************)
(* Model of the batching remote logger of birabittoh/logs (logs.go,        *)
(* utils.go): the Logger's shared state (reachability flag isOk, opts.URL, *)
(* queue, queueMutex, stopChan), the goroutines New starts (heartbeat,     *)
(* flush ticker), the goroutines enqueueLog spawns (go l.flushQueue()),    *)
(* the callers of the facade methods and Close.                            *)
(*                                                                         *)
(* Atomicity: one action is one stretch of code between two points at      *)
(* which another goroutine can observe or change shared state: acquiring   *)
(* queueMutex, the critical section up to Unlock, one HTTP exchange.       *)
(* The flag isOk is a plain bool in the source; it is modelled as one      *)
(* shared cell, every read and write being its own atomic access: a racing *)
(* read gives the value before or after the racing write.                  *)
(***************************************************************************)
EXTENDS Integers, Sequences, FiniteSets, TLC

\* Number of records the callers may enqueue in one behaviour.
MaxRecords == 3
\* The configured opts.MaxBatchSize of the modelled logger.
MaxBatchSize == 2
\* Number of concurrent caller goroutines.
NumCallers == 1
\* Longest argument list (key, value, key, value, ...) of a logging call.
MaxArgs == 4
\* Number of loggers derived by With / WithGroup in one behaviour.
MaxDerived == 1

VARIABLES
    url,         \* l.opts.URL: "" (remote disabled) or "http"
    isOk,        \* l.isOk, the reachability flag
    minLevel,    \* l.opts.MinDispatchLevel, a slog level number
    queue,       \* l.queue: sequence of records [id, level]
    mutex,       \* l.queueMutex: the task holding it, or NoTask
    stopClosed,  \* whether l.stopChan has been closed
    pc,          \* position of every task
    op,          \* per caller: the facade method being executed
    cur,         \* per task: index in batches of the snapshot it took
    final,       \* the flush goroutine took its stopChan branch
    nextId,      \* id of the next record appended
    proc,        \* "running", "exited" (os.Exit) or "panicked"
    batches,     \* history: every snapshot taken by a flush
    lastResp,    \* history: the outcome of the last dispatch
    lastEv,      \* history: the last event of the flag (a probe that
                 \* returned, a dispatch that failed in transport)
    atClose,     \* history: ids queued when Close was called
    sunk,        \* number of records the facade wrote to l.logger
    derived,     \* the loggers returned by With and WithGroup
    qcap,        \* cap(l.queue): the capacity of the queue's backing
                 \* array, which also identifies the array (a new array
                 \* is allocated only to grow, so each has its own size)
    opts         \* l.opts but URL and MinDispatchLevel: the intervals
                 \* (in milliseconds), MaxBatchSize and the two paths

vars == <<url, isOk, minLevel, queue, mutex, stopClosed, pc, op, cur, final,
          nextId, proc, batches, lastResp, lastEv, atClose,
          sunk, derived, qcap, opts>>

----------------------------------------------------------------------------
\* Tasks

Callers == {<<"caller", i>> : i \in 1..NumCallers}
\* The goroutine spawned by the enqueue of record i (go l.flushQueue()).
Asyncs == {<<"go", i>> : i \in 1..MaxRecords}
Heartbeat == <<"heartbeat", 0>>
Flusher == <<"flusher", 0>>
NoTask == <<"none", 0>>
Tasks == Callers \cup Asyncs \cup {Heartbeat, Flusher}

----------------------------------------------------------------------------
\* Constants of the source

DEBUG == "DEBUG"
INFO == "INFO"
WARN == "WARN"
ERROR == "ERROR"
LevelNames == {DEBUG, INFO, WARN, ERROR}

\* logLevels: level name -> slog.Level
logLevels == [n \in LevelNames |->
    CASE n = DEBUG -> -4 [] n = INFO -> 0 [] n = WARN -> 4 [] n = ERROR -> 8]

\* slog levels a caller may pass to Log/LogAttrs: the four named ones and
\* one that has no name (slog.Level(2)).
SlogLevels == {-4, 0, 2, 4, 8}

\* logLevelsInverse with the fallback of Log/LogAttrs: unknown -> INFO
logLevelsInverse(level) ==
    IF \E n \in LevelNames : logLevels[n] = level
    THEN CHOOSE n \in LevelNames : logLevels[n] = level
    ELSE INFO

\* HTTP outcomes: a transport error, or a response with a status code.
StatusCodes == {199, 200, 299, 300}
Responses == {[err |-> TRUE, code |-> 0]} \cup
             {[err |-> FALSE, code |-> c] : c \in StatusCodes}

isStatusOK(code) == code >= 200 /\ code < 300

----------------------------------------------------------------------------
\* Pure parts of the handlers

\* checkDispatcher: the value it returns for URL u, flag f, response r.
checkDispatcherResult(u, f, r) ==
    IF u = "" THEN FALSE ELSE (~r.err /\ isStatusOK(r.code))

\* checkDispatcher: the flag after the call (not written when URL is empty).
checkDispatcherFlag(u, f, r) ==
    IF u = "" THEN f ELSE (~r.err /\ isStatusOK(r.code))

\* Variant: a transport error leaves the flag as it was.
dispatchBatchFlag_KeepOnError(f, r) == f

\* Variant: the flag follows the outcome of every dispatch.
dispatchBatchFlag_FollowStatus(f, r) == ~r.err /\ isStatusOK(r.code)

\* dispatchBatch: the flag after client.Do returned r.
dispatchBatchFlag(f, r) ==
    IF r.err THEN FALSE ELSE f

\* dispatchBatch: the fate of the batch.
dispatchBatchStatus(r) ==
    IF r.err THEN "err" ELSE IF isStatusOK(r.code) THEN "ok" ELSE "bad"

\* Variant: the size test misses the threshold itself.
ShouldFlush_Above(len, max) == len > max

\* Variant: the size test misses a queue that grew past the threshold.
ShouldFlush_Exactly(len, max) == len = max

\* enqueueLog: the size test after the append.
ShouldFlush(len, max) == len >= max

\* Variant: flushQueue returns at once whatever the URL is.
RemoteDisabled_Always(u) == TRUE

\* Variant: flushQueue without the test of the URL.
RemoteDisabled_Untested(u) == FALSE

\* flushQueue: the test of the URL that makes it return at once.
RemoteDisabled(u) == u = ""

\* Variant: flushQueue without the test of the queue.
QueueEmpty_Untested(q) == FALSE

\* flushQueue: the test of the queue that makes it return without a batch.
QueueEmpty(q) == Len(q) = 0

\* Variant: the copy turns the order of the records round.
Snapshot_Reversed(q) == [i \in 1..Len(q) |-> q[Len(q) + 1 - i]]

\* flushQueue: batch := make([]Log, len(l.queue)); copy(batch, l.queue)
Snapshot(q) == q

\* Variant: the queue is not reset after the copy.
ResetQueue_Keep(q) == q

\* flushQueue: l.queue = l.queue[:0]
ResetQueue(q) == SubSeq(q, 1, 0)

\* Variant: a batch that was not accepted is put back for a retry.
QueueAfterDispatch_Requeue(q, batch, r) ==
    IF r.err \/ ~isStatusOK(r.code) THEN batch \o q ELSE q

\* dispatchBatch: the queue after client.Do returned r for batch; the
\* function has no statement that touches the queue, whatever r is.
QueueAfterDispatch(q, batch, r) == q

\* prepareBatch: TRUE iff a request is built (json.Marshal of
\* []Log with map[string]string args cannot fail; NewRequest fails only on a
\* URL that does not parse, and such a URL never passes the probe of New).
prepareBatch(batch, u) == u # "bad"

\* Values passed as args ...any: a string, an integer, a bool, or a value
\* of another type that carries the text fmt gives for it.
Str(s) == [t |-> "string", s |-> s, n |-> 0]
IntV(n) == [t |-> "int", s |-> "", n |-> n]
BoolV(b) == [t |-> "bool", s |-> "", n |-> IF b THEN 1 ELSE 0]

Digit(d) ==
    CASE d = 0 -> "0" [] d = 1 -> "1" [] d = 2 -> "2" [] d = 3 -> "3"
      [] d = 4 -> "4" [] d = 5 -> "5" [] d = 6 -> "6" [] d = 7 -> "7"
      [] d = 8 -> "8" [] d = 9 -> "9"

\* fmt.Sprintf("%d", n)
RECURSIVE Itoa(_)
Itoa(n) ==
    IF n < 0 THEN "-" \o Itoa(0 - n)
    ELSE IF n < 10 THEN Digit(n)
    ELSE Itoa(n \div 10) \o Digit(n % 10)

\* stringify (utils.go:120-137)
stringify(v) ==
    CASE v.t = "string" -> v.s
      [] v.t = "int" -> Itoa(v.n)
      [] v.t = "bool" -> (IF v.n = 1 THEN "true" ELSE "false")
      [] OTHER -> v.s

\* data := make(map[string]string)
EmptyArgs == [k \in {} |-> ""]

\* Variant: an earlier value of a key is kept.
Put_KeepFirst(d, k, v) ==
    [j \in DOMAIN d \cup {k} |-> IF j \in DOMAIN d THEN d[j] ELSE v]

\* data[key] = value
Put(d, k, v) == [j \in DOMAIN d \cup {k} |-> IF j = k THEN v ELSE d[j]]

\* enqueueLog: the loop over the pairs, i counting from 0 as in the source;
\* padded is args after the append of "" to a list of odd length, length
\* is len(args) before it.
RECURSIVE ArgsLoop(_, _, _, _)
ArgsLoop(padded, length, i, data) ==
    IF i >= length THEN data
    ELSE LET key == padded[i + 1]
             val == padded[i + 2]
         IN  IF key.t # "string"
             THEN ArgsLoop(padded, length, i + 2, data)
             ELSE ArgsLoop(padded, length, i + 2,
                           Put(data, key.s, stringify(val)))

\* enqueueLog: the Args of the record built from args.
BuildArgs(args) ==
    LET length == Len(args)
        padded == IF length % 2 # 0 THEN Append(args, Str("")) ELSE args
    IN  ArgsLoop(padded, length, 0, EmptyArgs)

\* append on a full slice (runtime growslice, one element more): the new
\* capacity is 1 for an empty array and twice the old one below 256
\* elements; with the 80 bytes of a Log these sizes are size classes of
\* the allocator, so nothing is rounded up.
GrowCap(c) == IF c = 0 THEN 1 ELSE 2 * c

\* The slice header of logger value d points to array a (0: no array
\* shared with another header).
SharesArray(d, a) == a # 0 /\ d.arr = a

\* A store of rec at place i (counted from 1) of array a, seen through
\* the header of d: d's queue has the record if the place is below its
\* length.
WriteThrough(d, a, i, rec) ==
    IF SharesArray(d, a) /\ Len(d.queue) >= i
    THEN [d EXCEPT !.queue[i] = rec]
    ELSE d

\* Variant: the facade does not look at the flag.
Dispatchable_IgnoreFlag(method, level, f, min) ==
    IF method \in {"Log", "LogAttrs"} THEN TRUE ELSE min <= level

\* The guard of the level methods: flag and minimum level.
\* Log and LogAttrs test the flag only.
Dispatchable(method, level, f, min) ==
    IF method \in {"Log", "LogAttrs"} THEN f ELSE f /\ min <= level

\* The level name a method records.
MethodLevel(method, level) ==
    CASE method \in {"Fatal", "FatalContext", "Error", "ErrorContext"} -> ERROR
      [] method \in {"Warn", "WarnContext"} -> WARN
      [] method \in {"Info", "InfoContext"} -> INFO
      [] method \in {"Debug", "DebugContext"} -> DEBUG
      [] OTHER -> logLevelsInverse(level)

\* The slog level a level method compares with MinDispatchLevel.
MethodSlogLevel(method, level) ==
    IF method \in {"Log", "LogAttrs"} THEN level
    ELSE logLevels[MethodLevel(method, level)]

LevelMethods == {"Error", "ErrorContext", "Warn", "WarnContext",
                 "Info", "InfoContext", "Debug", "DebugContext"}
FatalMethods == {"Fatal", "FatalContext"}
LogMethods == {"Log", "LogAttrs"}

----------------------------------------------------------------------------
\* New

\* Variant: only a negative value is replaced.
OrDefault_Negative(v, d) == IF v < 0 THEN d ELSE v

\* if opts.X <= 0 { opts.X = d } (logs.go:75-85)
OrDefault(v, d) == IF v <= 0 THEN d ELSE v

\* New, logs.go:75-93: the options after the defaults have been filled
\* in. Durations are in milliseconds (5 * time.Minute is 5 * 60 * 1000).
NormalizeOptions(o) ==
    LET dispatch == IF o.DispatchEndpoint = ""
                    THEN "/api/log" ELSE o.DispatchEndpoint
    IN  [HeartbeatInterval |-> OrDefault(o.HeartbeatInterval, 5 * 60 * 1000),
         BatchInterval |-> OrDefault(o.BatchInterval, 5 * 1000),
         MaxBatchSize |-> OrDefault(o.MaxBatchSize, 100),
         DispatchEndpoint |-> dispatch,
         HealthEndpoint |-> IF o.HealthEndpoint = ""
                            THEN dispatch ELSE o.HealthEndpoint]

\* The options of the modelled logger as its caller gives them: the
\* batch size of the model, everything else left to the defaults.
ModelOptions ==
    [HeartbeatInterval |-> 0, BatchInterval |-> 0,
     MaxBatchSize |-> MaxBatchSize,
     DispatchEndpoint |-> "", HealthEndpoint |-> ""]

\* New(handler, opts): the logger after construction, for the configured
\* URL and the response of the construction probe.
New(cfgURL, resp, min, o) ==
    LET ok == checkDispatcherResult(cfgURL, FALSE, resp) IN
    [url |-> IF ok THEN cfgURL ELSE "",
     isOk |-> checkDispatcherFlag(cfgURL, FALSE, resp),
     started |-> ok,
     minLevel |-> min,
     opts |-> NormalizeOptions(o),
     probed |-> TRUE]

\* No facade call in progress.
NoOp == [kind |-> "none", level |-> "none", raw |-> <<>>, args |-> EmptyArgs]

\* What the rest of a call needs of its method: Fatal exits at its end.
MethodKind(method) == IF method \in FatalMethods THEN "fatal" ELSE "log"

InitWith(l) ==
    /\ url = l.url
    /\ isOk = l.isOk
    /\ minLevel = l.minLevel
    /\ queue = <<>>
    /\ mutex = NoTask
    /\ stopClosed = FALSE
    /\ pc = [t \in Tasks |->
               IF t \in Callers THEN "idle"
               ELSE IF t \in {Heartbeat, Flusher} /\ l.started THEN "select"
               ELSE "none"]
    /\ op = [c \in Callers |-> NoOp]
    /\ cur = [t \in Tasks |-> 0]
    /\ final = FALSE
    /\ nextId = 1
    /\ proc = "running"
    /\ batches = <<>>
    /\ lastResp = "none"
    /\ lastEv = IF ~l.probed THEN "none"
                ELSE IF l.isOk THEN "probe_ok" ELSE "probe_fail"
    /\ atClose = {}
    /\ sunk = 0
    /\ derived = <<>>
    /\ qcap = 0
    /\ opts = l.opts

Init ==
    \E cfgURL \in {"", "http"}, resp \in Responses,
       min \in {logLevels[INFO], logLevels[ERROR]} :
        InitWith(New(cfgURL, resp, min, ModelOptions))

\* The Options values a caller passes to New.
OptionInputs ==
    [HeartbeatInterval : {-1, 0, 1, 400},
     BatchInterval : {-1, 0, 1, 9},
     MaxBatchSize : {-1, 0, 1, 250},
     DispatchEndpoint : {"", "/logs"},
     HealthEndpoint : {"", "/health"}]

\* A caller is about to call New with some Options: no logger yet.
InitNew ==
    /\ opts \in OptionInputs
    /\ url \in {"", "http"}
    /\ minLevel \in {logLevels[INFO], logLevels[ERROR]}
    /\ isOk = FALSE
    /\ queue = <<>>
    /\ mutex = NoTask
    /\ stopClosed = FALSE
    /\ pc = [t \in Tasks |-> IF t \in Callers THEN "New" ELSE "none"]
    /\ op = [c \in Callers |-> NoOp]
    /\ cur = [t \in Tasks |-> 0]
    /\ final = FALSE
    /\ nextId = 1
    /\ proc = "running"
    /\ batches = <<>>
    /\ lastResp = "none"
    /\ lastEv = "none"
    /\ atClose = {}
    /\ sunk = 0
    /\ derived = <<>>
    /\ qcap = 0

\* New (logs.go:74-139) as one call: the defaults, the Logger value, the
\* construction probe answered by resp, the URL cleared or the two
\* goroutines started.
NewCall(c, resp) ==
    /\ proc = "running"
    /\ pc[c] = "New"
    /\ LET l == New(url, resp, minLevel, opts) IN
        /\ opts' = l.opts
        /\ url' = l.url
        /\ isOk' = l.isOk
        /\ lastEv' = IF l.isOk THEN "probe_ok" ELSE "probe_fail"
        /\ pc' = [t \in Tasks |->
                    IF t = c THEN "idle"
                    ELSE IF t \in {Heartbeat, Flusher} /\ l.started
                         THEN "select"
                    ELSE pc[t]]
    /\ UNCHANGED <<minLevel, queue, mutex, stopClosed, op, cur, final,
                   nextId, proc, batches, lastResp, atClose, sunk, derived,
                   qcap>>

NextNew == \E c \in Callers, resp \in Responses : NewCall(c, resp)

SpecNew == InitNew /\ [][NextNew]_vars

----------------------------------------------------------------------------
\* Helpers of the actions

Running == proc = "running"

QueueIds == {queue[i].id : i \in 1..Len(queue)}

\* The position name of a task inside a method of derived logger k.
DPc(name, k) == name \o "@" \o Digit(k)

\* Records handed to enqueueLog so far (appended or about to be).
Issued == (nextId - 1) +
    Cardinality({c \in Callers : pc[c] = "enqueueLog" \/
                    \E k \in 1..Len(derived) : pc[c] = DPc("enqueueLog", k)})

IsFatal(t) == t \in Callers /\ op[t].kind = "fatal"

\* Variant: the flush goroutine goes back to its select after every flush.
AfterFlushPc_Loop(t) ==
    IF t \in Callers THEN (IF IsFatal(t) THEN "exited" ELSE "idle")
    ELSE IF t = Flusher THEN "select"
    ELSE "none"

\* Where a task continues when its flushQueue returns: Fatal goes on to
\* os.Exit(1), the flush goroutine loops or (stopChan branch) returns, a
\* spawned goroutine ends.
AfterFlushPc(t) ==
    IF t \in Callers THEN (IF IsFatal(t) THEN "exited" ELSE "idle")
    ELSE IF t = Flusher THEN (IF final THEN "done" ELSE "select")
    ELSE "none"

AfterFlushProc(t) == IF IsFatal(t) THEN "exited" ELSE proc

AfterFlushOp(t) == IF t \in Callers THEN [op EXCEPT ![t] = NoOp] ELSE op

----------------------------------------------------------------------------
\* Facade (logs.go:146-230, 262-290)

\* A level method, Fatal or Log called by caller c with args raw: the
\* local sink is written, then the flag (and the minimum level) decide
\* whether enqueueLog is called; enqueueLog builds the record's Args and
\* goes for the lock.
LogCall(c, method, level, raw) ==
    /\ Running
    /\ pc[c] = "idle"
    /\ Issued < MaxRecords
    /\ sunk < MaxRecords
    /\ sunk' = sunk + 1
    /\ IF Dispatchable(method, MethodSlogLevel(method, level), isOk, minLevel)
       THEN /\ pc' = [pc EXCEPT ![c] = "enqueueLog"]
            /\ op' = [op EXCEPT ![c] = [kind |-> MethodKind(method),
                                        level |-> MethodLevel(method, level),
                                        raw |-> raw,
                                        args |-> BuildArgs(raw)]]
            /\ proc' = proc
       ELSE /\ pc' = [pc EXCEPT ![c] =
                        IF method \in FatalMethods THEN "exited" ELSE "idle"]
            /\ proc' = IF method \in FatalMethods THEN "exited" ELSE proc
            /\ op' = op
    /\ UNCHANGED <<derived, qcap, opts>>
    /\ UNCHANGED <<url, isOk, minLevel, queue, mutex, stopClosed, cur, final,
                   nextId, batches, lastResp, lastEv, atClose>>

----------------------------------------------------------------------------
\* enqueueLog (utils.go:27-58)

\* Variant: every caller runs the flush itself after its enqueue.
AfterEnqueuePc_FlushInline(fatal) == "flushQueue"

\* Where a caller continues after enqueueLog returned: Fatal calls
\* flushQueue itself, every other method returns to its caller.
AfterEnqueuePc(fatal) == IF fatal THEN "flushQueue" ELSE "idle"

\* The critical section of enqueueLog, from Lock to the deferred Unlock:
\* the append and the size test with go l.flushQueue(). The record's args
\* are built before the lock and touch no shared state.
enqueueLog(c) ==
    /\ Running
    /\ pc[c] = "enqueueLog"
    /\ mutex = NoTask
    /\ LET rec == [id |-> nextId, level |-> op[c].level,
                    args |-> op[c].args, via |-> 0]
           grow == Len(queue) = qcap
       IN  /\ queue' = Append(queue, rec)
           /\ qcap' = IF grow THEN GrowCap(qcap) ELSE qcap
           /\ derived' = IF grow THEN derived
                         ELSE [k \in 1..Len(derived) |->
                                 WriteThrough(derived[k], qcap,
                                              Len(queue) + 1, rec)]
    /\ nextId' = nextId + 1
    /\ mutex' = mutex
    /\ pc' = [pc EXCEPT
                ![c] = AfterEnqueuePc(IsFatal(c)),
                ![<<"go", nextId>>] =
                    IF ShouldFlush(Len(queue'), opts.MaxBatchSize)
                    THEN "flushQueue" ELSE @]
    /\ op' = IF IsFatal(c) THEN op ELSE [op EXCEPT ![c] = NoOp]
    /\ UNCHANGED <<sunk, opts>>
    /\ UNCHANGED <<url, isOk, minLevel, stopClosed, cur, final, proc,
                   batches, lastResp, lastEv, atClose>>

----------------------------------------------------------------------------
\* flushQueue (utils.go:60-82), run by the flush goroutine, by a spawned
\* goroutine or by the caller of Fatal.

\* The URL test (utils.go:61-63): return at once, or go on to the lock.
flushQueueEnter(t) ==
    /\ Running
    /\ pc[t] = "flushQueue"
    /\ IF RemoteDisabled(url)
       THEN /\ pc' = [pc EXCEPT ![t] = AfterFlushPc(t)]
            /\ proc' = AfterFlushProc(t)
            /\ op' = AfterFlushOp(t)
       ELSE /\ pc' = [pc EXCEPT ![t] = "flush_lock"]
            /\ UNCHANGED <<proc, op>>
    /\ UNCHANGED <<sunk, derived, qcap, opts>>
    /\ UNCHANGED <<url, isOk, minLevel, queue, mutex, stopClosed, cur, final,
                   nextId, batches, lastResp, lastEv, atClose>>

\* l.queueMutex.Lock() (utils.go:65): blocks until the lock is free.
flushQueueLock(t) ==
    /\ Running
    /\ pc[t] = "flush_lock"
    /\ mutex = NoTask
    /\ mutex' = t
    /\ pc' = [pc EXCEPT ![t] = "flush_locked"]
    /\ UNCHANGED <<sunk, derived, qcap, opts>>
    /\ UNCHANGED <<url, isOk, minLevel, queue, stopClosed, op, cur, final,
                   nextId, proc, batches, lastResp, lastEv, atClose>>

\* Variant: the lock is kept until the batch has been sent.
UnlockQueue_AfterSend(t, empty) == IF empty THEN NoTask ELSE t

\* l.queueMutex.Unlock() of flushQueue, on both paths: the holder of the
\* lock after it.
UnlockQueue(t, empty) == NoTask

\* The critical section: return on an empty queue, else copy the queue
\* into batch, reset the queue, Unlock; then prepareBatch.
flushQueueSwap(t) ==
    /\ Running
    /\ pc[t] = "flush_locked"
    /\ mutex = t
    /\ mutex' = UnlockQueue(t, QueueEmpty(queue))
    /\ IF QueueEmpty(queue)
       THEN /\ pc' = [pc EXCEPT ![t] = AfterFlushPc(t)]
            /\ proc' = AfterFlushProc(t)
            /\ op' = AfterFlushOp(t)
            /\ UNCHANGED <<queue, batches, cur>>
       ELSE LET req == prepareBatch(queue, url) IN
            /\ batches' = Append(batches, Snapshot(queue))
            /\ queue' = ResetQueue(queue)
            /\ cur' = [cur EXCEPT ![t] = IF req THEN Len(batches') ELSE 0]
            /\ pc' = [pc EXCEPT ![t] =
                        IF req THEN "dispatch" ELSE AfterFlushPc(t)]
            /\ proc' = IF req THEN proc ELSE AfterFlushProc(t)
            /\ op' = IF req THEN op ELSE AfterFlushOp(t)
    /\ UNCHANGED <<sunk, derived, qcap, opts>>
    /\ UNCHANGED <<url, isOk, minLevel, stopClosed, final, nextId, lastResp,
                   lastEv, atClose>>

\* dispatchBatch (utils.go:106-118): client.Do returns r.
dispatchBatch(t, r) ==
    /\ Running
    /\ pc[t] = "dispatch"
    /\ isOk' = dispatchBatchFlag(isOk, r)
    /\ lastResp' = dispatchBatchStatus(r)
    /\ queue' = QueueAfterDispatch(queue, batches[cur[t]], r)
    /\ batches' = batches
    /\ lastEv' = IF r.err THEN "dispatch_err" ELSE lastEv
    /\ cur' = [cur EXCEPT ![t] = 0]
    /\ pc' = [pc EXCEPT ![t] = AfterFlushPc(t)]
    /\ proc' = AfterFlushProc(t)
    /\ op' = AfterFlushOp(t)
    /\ UNCHANGED <<sunk, derived, qcap, opts>>
    /\ UNCHANGED <<url, minLevel, mutex, stopClosed, final, nextId,
                   atClose>>

----------------------------------------------------------------------------
\* checkDispatcher (utils.go:16-25)

\* The URL test: without a URL checkDispatcher returns false at once (the
\* flag is not written), with a URL the GET is sent.
checkDispatcherStart(t) ==
    /\ Running
    /\ pc[t] = (IF t = Heartbeat THEN "select" ELSE "idle")
    /\ pc' = [pc EXCEPT ![t] =
                IF url = "" THEN (IF t = Heartbeat THEN "select" ELSE "idle")
                ELSE "probing"]
    /\ lastEv' = IF url = "" THEN "probe_skip" ELSE lastEv
    /\ UNCHANGED <<sunk, derived, qcap, opts>>
    /\ UNCHANGED <<url, isOk, minLevel, queue, mutex, stopClosed, op, cur,
                   final, nextId, proc, batches, lastResp, atClose>>

\* client.Get returns r: the flag is overwritten with the result.
checkDispatcherDone(t, r) ==
    /\ Running
    /\ pc[t] = "probing"
    /\ isOk' = checkDispatcherFlag(url, isOk, r)
    /\ lastEv' = IF checkDispatcherResult(url, isOk, r)
                 THEN "probe_ok" ELSE "probe_fail"
    /\ pc' = [pc EXCEPT ![t] = IF t = Heartbeat THEN "select" ELSE "idle"]
    /\ UNCHANGED <<sunk, derived, qcap, opts>>
    /\ UNCHANGED <<url, minLevel, queue, mutex, stopClosed, op, cur, final,
                   nextId, proc, batches, lastResp, atClose>>

----------------------------------------------------------------------------
\* The goroutines of New (logs.go:110-135)

\* Heartbeat goroutine, case <-ticker.C: l.checkDispatcher()
HeartbeatTick == checkDispatcherStart(Heartbeat)

\* Heartbeat goroutine, case <-l.stopChan
HeartbeatStop ==
    /\ Running
    /\ pc[Heartbeat] = "select"
    /\ stopClosed
    /\ pc' = [pc EXCEPT ![Heartbeat] = "done"]
    /\ UNCHANGED <<sunk, derived, qcap, opts>>
    /\ UNCHANGED <<url, isOk, minLevel, queue, mutex, stopClosed, op, cur,
                   final, nextId, proc, batches, lastResp, lastEv, atClose>>

\* Flush goroutine, case <-ticker.C
FlusherTick ==
    /\ Running
    /\ pc[Flusher] = "select"
    /\ pc' = [pc EXCEPT ![Flusher] = "flushQueue"]
    /\ UNCHANGED <<sunk, derived, qcap, opts>>
    /\ UNCHANGED <<url, isOk, minLevel, queue, mutex, stopClosed, op, cur,
                   final, nextId, proc, batches, lastResp, lastEv, atClose>>

\* Flush goroutine, case <-l.stopChan: one flushQueue, then return.
FlusherStop ==
    /\ Running
    /\ pc[Flusher] = "select"
    /\ stopClosed
    /\ final' = TRUE
    /\ pc' = [pc EXCEPT ![Flusher] = "flushQueue"]
    /\ UNCHANGED <<sunk, derived, qcap, opts>>
    /\ UNCHANGED <<url, isOk, minLevel, queue, mutex, stopClosed, op, cur,
                   nextId, proc, batches, lastResp, lastEv, atClose>>

----------------------------------------------------------------------------
\* Close (logs.go:141-144)

\* close(l.stopChan); closing a closed channel panics.
Close(c) ==
    /\ Running
    /\ pc[c] = "idle"
    /\ IF stopClosed
       THEN /\ proc' = "panicked"
            /\ pc' = [pc EXCEPT ![c] = "panicked"]
            /\ UNCHANGED <<stopClosed, atClose>>
       ELSE /\ stopClosed' = TRUE
            /\ pc' = [pc EXCEPT ![c] = "close_sleep"]
            /\ atClose' = QueueIds
            /\ proc' = proc
    /\ UNCHANGED <<sunk, derived, qcap, opts>>
    /\ UNCHANGED <<url, isOk, minLevel, queue, mutex, op, cur, final,
                   nextId, batches, lastResp, lastEv>>

\* time.Sleep(100 * time.Millisecond) ends and Close returns, wherever
\* the flush goroutine is: Close waits for the time only.
CloseReturn(c) ==
    /\ Running
    /\ pc[c] = "close_sleep"
    /\ pc' = [pc EXCEPT ![c] = "idle"]
    /\ atClose' = {}
    /\ UNCHANGED <<sunk, derived, qcap, opts>>
    /\ UNCHANGED <<url, isOk, minLevel, queue, mutex, stopClosed, op, cur,
                   final, nextId, proc, batches, lastResp, lastEv>>

----------------------------------------------------------------------------
\* The logger built by New and used through its exported methods.

Methods == LevelMethods \cup FatalMethods \cup LogMethods

\* The methods the callers of Spec use.
SpecMethods == {"Info", "Fatal"}

Next ==
    \/ \E c \in Callers, m \in SpecMethods : LogCall(c, m, 0, <<>>)
    \/ \E c \in Callers : enqueueLog(c)
    \/ \E t \in Tasks : flushQueueEnter(t)
    \/ \E t \in Tasks : flushQueueLock(t)
    \/ \E t \in Tasks : flushQueueSwap(t)
    \/ \E t \in Tasks, r \in Responses : dispatchBatch(t, r)
    \/ \E r \in Responses : checkDispatcherDone(Heartbeat, r)
    \/ HeartbeatTick
    \/ HeartbeatStop
    \/ FlusherTick
    \/ FlusherStop
    \/ \E c \in Callers : Close(c)
    \/ \E c \in Callers : CloseReturn(c)

Spec == Init /\ [][Next]_vars

----------------------------------------------------------------------------
\* The same logger with callers that use every method of the facade and
\* every level.

NextFacade ==
    \/ \E c \in Callers, m \in Methods, lv \in SlogLevels :
          LogCall(c, m, lv, <<>>)
    \/ \E c \in Callers : enqueueLog(c)
    \/ \E t \in Tasks : flushQueueEnter(t)
    \/ \E t \in Tasks : flushQueueLock(t)
    \/ \E t \in Tasks : flushQueueSwap(t)
    \/ \E t \in Tasks, r \in Responses : dispatchBatch(t, r)
    \/ \E r \in Responses : checkDispatcherDone(Heartbeat, r)
    \/ HeartbeatTick
    \/ FlusherTick

SpecFacade == Init /\ [][NextFacade]_vars

----------------------------------------------------------------------------
\* What the unlocked read of l.queue by With can give: the queue as it
\* is, or, racing with a task inside the critical section of flushQueue,
\* the queue as that section leaves it.
WithReads ==
    IF mutex = NoTask THEN {queue} ELSE {queue, ResetQueue(queue)}

\* With / WithGroup (logs.go:240-260): a new Logger that copies the flag,
\* the options and the slice header of the queue and has a lock of its
\* own; the parent's lock is not taken.
With(c, q) ==
    /\ Running
    /\ pc[c] = "idle"
    /\ Len(derived) < MaxDerived
    /\ derived' = Append(derived, [isOk |-> isOk, url |-> url,
                                   queue |-> q, mutex |-> NoTask,
                                   cap |-> qcap, arr |-> qcap])
    /\ UNCHANGED <<url, isOk, minLevel, queue, mutex, stopClosed, pc, op, cur,
                   final, nextId, proc, batches, lastResp, lastEv, atClose,
                   sunk, qcap, opts>>

NextWith ==
    \/ Next
    \/ \E c \in Callers, q \in WithReads : With(c, q)

SpecWith == Init /\ [][NextWith]_vars

\* A level method or Log called on derived logger k with args raw: the
\* local sink is written, then the derived logger's own copy of the flag
\* (and the minimum level, copied with the options) decide whether
\* enqueueLog is called.
DerivedLogCall(c, k, method, level, raw) ==
    /\ Running
    /\ pc[c] = "idle"
    /\ k \in 1..Len(derived)
    /\ Issued < MaxRecords
    /\ sunk < MaxRecords
    /\ sunk' = sunk + 1
    /\ IF Dispatchable(method, MethodSlogLevel(method, level),
                       derived[k].isOk, minLevel)
       THEN /\ pc' = [pc EXCEPT ![c] = DPc("enqueueLog", k)]
            /\ op' = [op EXCEPT ![c] = [kind |-> "log",
                                        level |-> MethodLevel(method, level),
                                        raw |-> raw,
                                        args |-> BuildArgs(raw)]]
       ELSE UNCHANGED <<pc, op>>
    /\ UNCHANGED <<url, isOk, minLevel, queue, mutex, stopClosed, cur, final,
                   nextId, proc, batches, lastResp, lastEv, atClose,
                   derived, qcap, opts>>

\* enqueueLog on derived logger k, under the derived logger's own lock:
\* append through its own slice header. With room left the record is
\* stored in the array the header points to, which the parent's header
\* may point to as well; on a full slice the queue moves to a new array.
DerivedEnqueueLog(c, k) ==
    /\ Running
    /\ k \in 1..Len(derived)
    /\ pc[c] = DPc("enqueueLog", k)
    /\ derived[k].mutex = NoTask
    /\ LET d == derived[k]
           rec == [id |-> nextId, level |-> op[c].level,
                   args |-> op[c].args, via |-> k]
           n == Len(d.queue) + 1
           grow == Len(d.queue) = d.cap
           a == IF grow THEN 0 ELSE d.arr
       IN  /\ derived' = [j \in 1..Len(derived) |->
                 IF j = k
                 THEN [d EXCEPT !.queue = Append(d.queue, rec),
                                !.cap = IF grow THEN GrowCap(d.cap) ELSE d.cap,
                                !.arr = a]
                 ELSE WriteThrough(derived[j], a, n, rec)]
           /\ queue' = WriteThrough([queue |-> queue, arr |-> qcap],
                                    a, n, rec).queue
           /\ pc' = [pc EXCEPT
                       ![c] = "idle",
                       ![<<"go", nextId>>] =
                           IF ShouldFlush(n, opts.MaxBatchSize)
                           THEN DPc("flushQueue", k) ELSE @]
    /\ nextId' = nextId + 1
    /\ op' = [op EXCEPT ![c] = NoOp]
    /\ UNCHANGED <<url, isOk, minLevel, mutex, stopClosed, cur, final, proc,
                   batches, lastResp, lastEv, atClose, sunk, qcap, opts>>

\* flushQueue on derived logger k (run by a goroutine its enqueueLog
\* spawned): the test of the derived logger's copy of the URL.
DerivedFlushEnter(t, k) ==
    /\ Running
    /\ k \in 1..Len(derived)
    /\ pc[t] = DPc("flushQueue", k)
    /\ pc' = [pc EXCEPT ![t] = IF RemoteDisabled(derived[k].url)
                               THEN "none" ELSE DPc("flush_lock", k)]
    /\ UNCHANGED <<url, isOk, minLevel, queue, mutex, stopClosed, op, cur,
                   final, nextId, proc, batches, lastResp, lastEv, atClose,
                   sunk, derived, qcap, opts>>

\* Lock of the derived logger's own lock.
DerivedFlushLock(t, k) ==
    /\ Running
    /\ k \in 1..Len(derived)
    /\ pc[t] = DPc("flush_lock", k)
    /\ derived[k].mutex = NoTask
    /\ derived' = [derived EXCEPT ![k].mutex = t]
    /\ pc' = [pc EXCEPT ![t] = DPc("flush_locked", k)]
    /\ UNCHANGED <<url, isOk, minLevel, queue, mutex, stopClosed, op, cur,
                   final, nextId, proc, batches, lastResp, lastEv, atClose,
                   sunk, qcap, opts>>

\* The critical section of flushQueue on derived logger k.
DerivedFlushSwap(t, k) ==
    /\ Running
    /\ k \in 1..Len(derived)
    /\ pc[t] = DPc("flush_locked", k)
    /\ LET d == derived[k] IN
       IF QueueEmpty(d.queue)
       THEN /\ derived' = [derived EXCEPT ![k].mutex = NoTask]
            /\ pc' = [pc EXCEPT ![t] = "none"]
            /\ UNCHANGED <<batches, cur>>
       ELSE LET req == prepareBatch(d.queue, d.url) IN
            /\ batches' = Append(batches, Snapshot(d.queue))
            /\ derived' = [derived EXCEPT ![k].mutex = NoTask,
                                          ![k].queue = ResetQueue(d.queue)]
            /\ cur' = [cur EXCEPT ![t] = IF req THEN Len(batches') ELSE 0]
            /\ pc' = [pc EXCEPT ![t] =
                        IF req THEN DPc("dispatch", k) ELSE "none"]
    /\ UNCHANGED <<url, isOk, minLevel, queue, mutex, stopClosed, op, final,
                   nextId, proc, lastResp, lastEv, atClose, sunk, qcap, opts>>

\* dispatchBatch on derived logger k: a transport error clears the
\* derived logger's copy of the flag.
DerivedDispatchBatch(t, k, r) ==
    /\ Running
    /\ k \in 1..Len(derived)
    /\ pc[t] = DPc("dispatch", k)
    /\ derived' = [derived EXCEPT
                      ![k].isOk = dispatchBatchFlag(derived[k].isOk, r)]
    /\ cur' = [cur EXCEPT ![t] = 0]
    /\ pc' = [pc EXCEPT ![t] = "none"]
    /\ UNCHANGED <<url, isOk, minLevel, queue, mutex, stopClosed, op, final,
                   nextId, proc, batches, lastResp, lastEv, atClose, sunk,
                   qcap, opts>>

\* A logger and the loggers derived from it, used by callers that log
\* with Info; the parent's flush goroutine runs and the logger is closed.
NextDerived ==
    \/ \E c \in Callers : LogCall(c, "Info", 0, <<>>)
    \/ \E c \in Callers : enqueueLog(c)
    \/ \E t \in Tasks : flushQueueEnter(t)
    \/ \E t \in Tasks : flushQueueLock(t)
    \/ \E t \in Tasks : flushQueueSwap(t)
    \/ \E t \in Tasks, r \in Responses : dispatchBatch(t, r)
    \/ FlusherTick
    \/ FlusherStop
    \/ \E c \in Callers : Close(c)
    \/ \E c \in Callers : CloseReturn(c)
    \/ \E c \in Callers, q \in WithReads : With(c, q)
    \/ \E c \in Callers, k \in 1..MaxDerived :
          DerivedLogCall(c, k, "Info", 0, <<>>)
    \/ \E c \in Callers, k \in 1..MaxDerived : DerivedEnqueueLog(c, k)
    \/ \E t \in Asyncs, k \in 1..MaxDerived : DerivedFlushEnter(t, k)
    \/ \E t \in Asyncs, k \in 1..MaxDerived : DerivedFlushLock(t, k)
    \/ \E t \in Asyncs, k \in 1..MaxDerived : DerivedFlushSwap(t, k)
    \/ \E t \in Asyncs, k \in 1..MaxDerived, r \in Responses :
          DerivedDispatchBatch(t, k, r)

SpecDerived == Init /\ [][NextDerived]_vars

----------------------------------------------------------------------------
\* The logger used from inside the package, the way the package's tests
\* use it (utils_test.go, logs_test.go): built by newTestLogger, its
\* fields assigned and its unexported methods called directly.

\* MaxBatchSize in the Logger literal of newTestLogger.
TestMaxBatchSize == 10

\* newTestLogger() of utils_test.go: a Logger literal, not built by New:
\* flag true, a URL, no goroutine, no probe, and the options as written
\* (no default filled in; MinDispatchLevel is the zero value, INFO).
newTestLogger ==
    [url |-> "http", isOk |-> TRUE, started |-> FALSE,
     minLevel |-> logLevels[INFO],
     opts |-> [HeartbeatInterval |-> 0, BatchInterval |-> 100,
               MaxBatchSize |-> TestMaxBatchSize,
               DispatchEndpoint |-> "/dispatch", HealthEndpoint |-> ""],
     probed |-> FALSE]

InitPkg == InitWith(newTestLogger)

\* l.opts.URL = ... (utils_test.go:256, logs_test.go:188,193)
PkgSetURL(c, u) ==
    /\ Running
    /\ pc[c] = "idle"
    /\ url # u
    /\ url' = u
    /\ UNCHANGED <<sunk, derived, qcap, opts>>
    /\ UNCHANGED <<isOk, minLevel, queue, mutex, stopClosed, pc, op, cur,
                   final, nextId, proc, batches, lastResp, lastEv, atClose>>

\* l.opts.MaxBatchSize = n (utils_test.go:128, logs_test.go:283)
PkgSetMaxBatchSize(c, n) ==
    /\ Running
    /\ pc[c] = "idle"
    /\ opts.MaxBatchSize # n
    /\ opts' = [opts EXCEPT !.MaxBatchSize = n]
    /\ UNCHANGED <<url, isOk, minLevel, queue, mutex, stopClosed, pc, op, cur,
                   final, nextId, proc, batches, lastResp, lastEv, atClose,
                   sunk, derived, qcap>>

\* l.enqueueLog(level, msg, args...) called directly
PkgEnqueueLog(c, level, raw) ==
    /\ Running
    /\ pc[c] = "idle"
    /\ Issued < MaxRecords
    /\ pc' = [pc EXCEPT ![c] = "enqueueLog"]
    /\ op' = [op EXCEPT ![c] = [kind |-> "log", level |-> level,
                                raw |-> raw, args |-> BuildArgs(raw)]]
    /\ UNCHANGED <<sunk, derived, qcap, opts>>
    /\ UNCHANGED <<url, isOk, minLevel, queue, mutex, stopClosed, cur, final,
                   nextId, proc, batches, lastResp, lastEv, atClose>>

\* l.flushQueue() called directly
PkgFlushQueue(c) ==
    /\ Running
    /\ pc[c] = "idle"
    /\ pc' = [pc EXCEPT ![c] = "flushQueue"]
    /\ UNCHANGED <<sunk, derived, qcap, opts>>
    /\ UNCHANGED <<url, isOk, minLevel, queue, mutex, stopClosed, op, cur,
                   final, nextId, proc, batches, lastResp, lastEv, atClose>>

NextPkg ==
    \/ \E c \in Callers, u \in {"", "http"} : PkgSetURL(c, u)
    \/ \E c \in Callers : PkgSetMaxBatchSize(c, MaxBatchSize)
    \/ \E c \in Callers : PkgEnqueueLog(c, INFO, <<>>)
    \/ \E c \in Callers : PkgFlushQueue(c)
    \/ \E c \in Callers : checkDispatcherStart(c)
    \/ \E c \in Callers, r \in Responses : checkDispatcherDone(c, r)
    \/ \E c \in Callers : enqueueLog(c)
    \/ \E t \in Tasks : flushQueueEnter(t)
    \/ \E t \in Tasks : flushQueueLock(t)
    \/ \E t \in Tasks : flushQueueSwap(t)
    \/ \E t \in Tasks, r \in Responses : dispatchBatch(t, r)

SpecPkg == InitPkg /\ [][NextPkg]_vars

\* The values and the argument lists of the calls of enqueueLog.
ArgValues == {Str("a"), Str("b"), IntV(1)}
ArgSeqs == UNION {[1..n -> ArgValues] : n \in 0..MaxArgs}

\* enqueueLog called directly with every argument list, as
\* TestLogger_enqueueLog and TestLogger_enqueueLog_invalidArgs do.
NextArgs ==
    \/ \E c \in Callers, raw \in ArgSeqs : PkgEnqueueLog(c, INFO, raw)
    \/ \E c \in Callers : enqueueLog(c)

SpecArgs == InitPkg /\ [][NextArgs]_vars

----------------------------------------------------------------------------
\* Scheduling. The Go scheduler runs every runnable goroutine, sync.Mutex
\* hands the lock to a waiter that keeps failing to get it (starvation
\* mode), a critical section runs to its Unlock, and an HTTP exchange ends
\* (the client has a 5 s timeout). Nothing is assumed about the tickers or
\* about the callers: they may stop at any point.

\* A critical section of flushQueue runs to its Unlock.
LockFairness == \A t \in Tasks : WF_vars(flushQueueSwap(t))

GoroutineFairness ==
    /\ \A a \in Asyncs : WF_vars(flushQueueEnter(a))
    /\ \A a \in Asyncs : SF_vars(flushQueueLock(a))
    /\ LockFairness
    /\ \A a \in Asyncs : WF_vars(\E r \in Responses : dispatchBatch(a, r))

LiveSpec == Init /\ [][Next]_vars /\ GoroutineFairness

\* Scheduling of the two goroutines of New once stopChan is closed. A
\* select with several ready cases picks one uniformly at random, so a
\* goroutine that comes back to its select with stopChan closed takes the
\* stopChan case in the end; the probe and the dispatch of the goroutines
\* end (client timeout), and the flush goroutine gets the lock.
ShutdownFairness ==
    /\ SF_vars(HeartbeatStop)
    /\ SF_vars(FlusherStop)
    /\ WF_vars(\E r \in Responses : checkDispatcherDone(Heartbeat, r))
    /\ WF_vars(flushQueueEnter(Flusher))
    /\ SF_vars(flushQueueLock(Flusher))
    /\ WF_vars(\E r \in Responses : dispatchBatch(Flusher, r))

\* Scheduling of the flush goroutine while it runs: its ticker fires
\* every BatchInterval, so a goroutine waiting in its select leaves it (by
\* a tick, or by the stopChan case), gets the lock and ends its dispatch.
TimerFairness ==
    /\ WF_vars(FlusherTick)
    /\ WF_vars(flushQueueEnter(Flusher))
    /\ SF_vars(flushQueueLock(Flusher))
    /\ WF_vars(\E r \in Responses : dispatchBatch(Flusher, r))

SpecTimer == Init /\ [][Next]_vars /\ LockFairness /\ TimerFairness

SpecShutdown == Init /\ [][Next]_vars /\ LockFairness /\ ShutdownFairness

----------------------------------------------------------------------------
\* Properties

\* Number of places of the sequence q that hold the record with this id.
CountIn(q, id) == Cardinality({i \in 1..Len(q) : q[i].id = id})

\* Number of snapshots that hold the record with this id.
CountInBatches(id) ==
    Cardinality({<<i, j>> \in (1..Len(batches)) \X (1..MaxRecords) :
                    j <= Len(batches[i]) /\ batches[i][j].id = id})

BatchIds(i) == {batches[i][j].id : j \in 1..Len(batches[i])}

\* The step is the end of the dispatch of t's batch.
Dispatched(t) == pc[t] = "dispatch" /\ pc'[t] # "dispatch"

\* The step is the return of Close to caller c.
CloseReturns(c) == pc[c] = "close_sleep" /\ pc'[c] # "close_sleep"

\* C1: when Close returns, every record that was in the queue when Close
\* was called has been swapped out of the queue (the queue has been drained
\* by the final flush).
C1_CloseDrainsQueue ==
    [][\A c \in Callers : CloseReturns(c) => atClose \cap QueueIds = {}]_vars

\* C2: when Close returns, the flush goroutine (if New started one) has
\* ended its final flush: no final flush is still to come, draining or
\* sending; the final flush is synchronous with Close.
C2_FinalFlushSynchronous ==
    [][\A c \in Callers :
          CloseReturns(c) => pc[Flusher] \in {"none", "done"}]_vars

\* C3: every record appended to the queue is in exactly one place, the
\* live queue or exactly one flush snapshot: never in two batches, never
\* lost without a snapshot.
C3_ExactlyOnePlace ==
    \A id \in 1..(nextId - 1) : CountIn(queue, id) + CountInBatches(id) = 1

\* C3 witness: two snapshots have been taken by flushes and a record
\* enqueued since is in the live queue.
C3_Witness == Len(batches) >= 2 /\ Len(queue) >= 1

\* C4: a dispatch that fails (transport error or non-2xx status) puts no
\* record back: the queue is as before, no snapshot is added, and the
\* records of the failed batch are in no other batch, then and later.
C4_FailedBatchDropped ==
    /\ [][\A t \in Tasks :
             (Dispatched(t) /\ lastResp' \in {"err", "bad"}) =>
                 /\ queue' = queue
                 /\ batches' = batches
                 /\ BatchIds(cur[t]) \cap QueueIds' = {}]_vars
    /\ [](\A i, j \in 1..Len(batches) :
             /\ BatchIds(i) \cap QueueIds = {}
             /\ i # j => BatchIds(i) \cap BatchIds(j) = {})

\* C4 witness: the last dispatch failed with a non-2xx status, its batch
\* is gone, and records enqueued since have been swapped into a later
\* batch that is being sent.
C4_Witness ==
    /\ lastResp = "bad"
    /\ Len(batches) >= 2
    /\ \E t \in Tasks : pc[t] = "dispatch" /\ cur[t] = Len(batches)
    /\ \A t \in Tasks : pc[t] = "dispatch" => cur[t] = Len(batches)

\* C5: once the queue length has reached MaxBatchSize the queue becomes
\* empty again, by the flush that enqueueLog spawned alone: LiveSpec
\* assumes no timer tick and no further call (a process that has exited
\* or panicked has no queue left to drain).
C5_ThresholdFlushDrains ==
    (Len(queue) >= MaxBatchSize) ~> (Len(queue) = 0 \/ ~Running)

\* C5 witness: an enqueue has just brought the queue to MaxBatchSize and
\* its spawned flush has not run yet.
C5_Witness ==
    /\ Len(queue) = MaxBatchSize
    /\ pc[<<"go", nextId - 1>>] = "flushQueue"
    /\ url # ""

\* The task that takes a snapshot in this step, if the step is a swap.
Swaps(t) == pc[t] = "flush_locked" /\ pc'[t] # "flush_locked" /\ ~QueueEmpty(queue)

\* The step is an append of enqueueLog.
Appends == nextId' = nextId + 1

\* enqueueLog spawns a flush iff the length after the append is at least
\* MaxBatchSize, and it removes nothing.
EnqueueStep ==
    Appends =>
        /\ Len(queue') = Len(queue) + 1
        /\ SubSeq(queue', 1, Len(queue)) = queue
        /\ \A a \in Asyncs :
              (pc[a] # pc'[a]) <=>
                  (a = <<"go", nextId>> /\ Len(queue') >= MaxBatchSize)
        /\ \A a \in Asyncs : pc[a] # pc'[a] => pc'[a] = "flushQueue"

\* C6 as claimed: enqueueLog spawns a flush iff the length after the
\* append is at least MaxBatchSize and removes nothing, and a queue left
\* below MaxBatchSize by the last enqueue keeps its records until a timer
\* tick or the shutdown flush (a later enqueue that reaches the threshold
\* makes the queue longer first). Read in the claim's favour: the flush
\* that Fatal runs itself after its own enqueue is let pass.
C6_Original ==
    [][/\ EnqueueStep
       /\ \A t \in Tasks : (Swaps(t) /\ Len(queue) < MaxBatchSize) =>
             (t = Flusher \/ t \in Callers)]_vars

\* C6 amended: enqueueLog spawns a flush iff the length after the append
\* is at least MaxBatchSize and removes nothing; queued records leave the
\* queue only when some flushQueue swaps the whole queue into its
\* snapshot, whoever runs it (the flush goroutine, Fatal, or any spawned
\* flush, also one spawned by an earlier enqueue).
C6_EnqueueTriggersFlush ==
    [][/\ EnqueueStep
       /\ (~Appends /\ queue' # queue) =>
             /\ \E t \in Tasks : Swaps(t)
             /\ queue' = <<>>
             /\ batches' = Append(batches, queue)]_vars

\* C6 witness: two enqueues in a row reached the threshold and each
\* spawned a flush; neither flush has run yet and nothing was removed.
C6_Witness ==
    /\ Len(queue) > MaxBatchSize
    /\ pc[<<"go", nextId - 1>>] = "flushQueue"
    /\ pc[<<"go", nextId - 2>>] = "flushQueue"

\* C7: a flushQueue that finds the queue empty returns at once: it sends
\* no request and changes neither the queue nor the flag, also when the
\* queue was drained by a racing flush.
C7_EmptyFlushNoOp ==
    [][\A t \in Tasks :
          (pc[t] = "flush_locked" /\ pc'[t] # "flush_locked" /\ Len(queue) = 0) =>
              /\ pc'[t] = AfterFlushPc(t)
              /\ queue' = queue
              /\ isOk' = isOk
              /\ batches' = batches
              /\ cur' = cur]_vars

\* C7 witness: two flushes race; one has drained the queue and is sending,
\* the other holds the lock on the empty queue.
C7_Witness ==
    \E t, u \in Tasks :
        /\ t # u
        /\ pc[t] = "flush_locked"
        /\ Len(queue) = 0
        /\ pc[u] = "dispatch"

\* C8: with an empty URL flushQueue returns at once whatever the queue
\* holds: no request, no record removed, the flag unchanged.
C8_DisabledFlushNoOp ==
    [][\A t \in Tasks :
          (pc[t] = "flushQueue" /\ pc'[t] # "flushQueue" /\ url = "") =>
              /\ pc'[t] = AfterFlushPc(t)
              /\ queue' = queue
              /\ isOk' = isOk
              /\ batches' = batches
              /\ mutex' = mutex]_vars

\* C8 witness: flushQueue is called with an empty URL on a queue that
\* holds records.
C8_Witness ==
    /\ url = ""
    /\ Len(queue) > 0
    /\ \E t \in Tasks : pc[t] = "flushQueue"

\* C9: after a dispatch that failed at transport level the flag is false,
\* and after a probe that succeeded the flag is true, as long as no later
\* probe or failed dispatch has written it.
C9_FlagFollowsLastEvent ==
    /\ lastEv = "dispatch_err" => ~isOk
    /\ lastEv = "probe_ok" => isOk

\* C9 witness: a dispatch failed at transport level, a later probe
\* succeeded and the flag is true again.
C9_Witness ==
    /\ lastResp = "err"
    /\ lastEv = "probe_ok"
    /\ isOk

\* C10: a dispatch changes the flag only on a transport failure, and then
\* to false; a step that raises the flag is the end of a probe.
C10_DispatchOnlyLowersFlag ==
    [][/\ \A t \in Tasks :
             Dispatched(t) =>
                 \/ isOk' = isOk
                 \/ lastResp' = "err" /\ ~isOk'
       /\ (~isOk /\ isOk') =>
             \E t \in Tasks : pc[t] = "probing" /\ pc'[t] # "probing"]_vars

\* C10 witness: the flag is false since a transport failure, and the
\* dispatch that came after it got a 2xx response.
C10_Witness ==
    /\ ~isOk
    /\ lastEv = "dispatch_err"
    /\ lastResp = "ok"

----------------------------------------------------------------------------

\* The step is the return of a checkDispatcher call: after a GET, or at
\* once for an empty URL.
ProbeReturns ==
    \/ \E t \in Tasks : pc[t] = "probing" /\ pc'[t] # "probing"
    \/ lastEv # "probe_skip" /\ lastEv' = "probe_skip"

\* The value the call that returns in this step returns: true after a GET
\* that succeeded with a 2xx status, false otherwise.
ProbeResult == lastEv' = "probe_ok"

\* C11: when checkDispatcher returns, the flag equals the value returned,
\* in any state of the logger (also with an empty URL and the flag true).
C11_ProbeSetsFlag ==
    [][ProbeReturns => isOk' = ProbeResult]_vars

\* C12: a logger whose construction probe failed keeps the URL empty and
\* the flag false, never enqueues a record, never takes a snapshot, never
\* sends a request, and every facade call made on it writes the local sink.
C12_ProbeFailureDisablesRemote ==
    /\ [](url = "" =>
            /\ ~isOk
            /\ Len(queue) = 0
            /\ nextId = 1
            /\ Len(batches) = 0
            /\ lastResp = "none"
            /\ \A t \in Tasks : pc[t] \in {"idle", "none", "exited"})
    /\ [][url = "" => (url' = "" /\ sunk' = sunk + 1)]_vars

\* C12 witness: the construction probe failed and the facade has been
\* called MaxRecords times since, the last call being Fatal.
C12_Witness ==
    /\ url = ""
    /\ lastEv = "probe_fail"
    /\ sunk = MaxRecords
    /\ proc = "exited"

\* Every record in this sequence has a level at or above MinDispatchLevel.
LevelsPass(q) == \A i \in 1..Len(q) : logLevels[q[i].level] >= minLevel

\* C13: no record below MinDispatchLevel is ever enqueued, whatever the
\* entry point of the facade: the queue and the snapshots hold records at
\* or above the minimum level only.
C13_MinLevelRespected ==
    /\ LevelsPass(queue)
    /\ \A i \in 1..Len(batches) : LevelsPass(batches[i])

\* The Args the pairs of an argument list of even length give: the keys
\* are the strings in key position, each with the stringified value of the
\* last pair that has this key.
ExpectedArgs(raw) ==
    LET Pairs == 1..(Len(raw) \div 2)
        KeyAt(j) == raw[2 * j - 1]
        PairsOf(k) == {j \in Pairs : KeyAt(j).t = "string" /\ KeyAt(j).s = k}
        Last(S) == CHOOSE j \in S : \A i \in S : i <= j
    IN  [k \in {KeyAt(j).s : j \in {i \in Pairs : KeyAt(i).t = "string"}} |->
            stringify(raw[2 * Last(PairsOf(k))])]

\* C14: for an argument list of odd length the record is built and its
\* Args are those of the list without its last argument: the unpaired
\* argument is neither a key nor a value of the mapping.
C14_OddArgDropped ==
    \A c \in Callers :
        (pc[c] = "enqueueLog" /\ Len(op[c].raw) % 2 = 1) =>
            op[c].args = ExpectedArgs(SubSeq(op[c].raw, 1, Len(op[c].raw) - 1))

\* C15: for an argument list of even length the Args of the record are
\* exactly the pairs with a string key, the values stringified, a later
\* duplicate key overwriting the earlier one, and the record is appended
\* with these Args.
C15_EvenArgsMapped ==
    /\ [](\A c \in Callers :
            (pc[c] = "enqueueLog" /\ Len(op[c].raw) % 2 = 0) =>
                op[c].args = ExpectedArgs(op[c].raw))
    /\ [][\A c \in Callers :
            (pc[c] = "enqueueLog" /\ pc'[c] # "enqueueLog") =>
                queue'[Len(queue')].args = op[c].args]_vars

\* C15 witness: a call with two pairs, the first with a key that is not a
\* string, is waiting for the lock behind a record built from two pairs
\* with the same key.
C15_Witness ==
    /\ \E c \in Callers :
          /\ pc[c] = "enqueueLog"
          /\ op[c].raw = <<IntV(1), Str("a"), Str("b"), IntV(1)>>
          /\ op[c].args = [b |-> "1"]
    /\ Len(queue) = 1
    /\ queue[1].args = [a |-> "1"]

\* C16: the queue lock is never held across a network request: a task
\* that is sending a batch or probing does not hold the lock, and a lock
\* that is held is held by a task inside the swap of flushQueue (the
\* critical section of enqueueLog is one step), so that a waiting enqueue
\* waits for critical sections only.
C16_NoLockAcrossNetwork ==
    /\ \A t \in Tasks : pc[t] \in {"dispatch", "probing"} => mutex # t
    /\ mutex # NoTask => pc[mutex] = "flush_locked"

\* C16 witness: a batch is being sent while a caller is at the lock of
\* enqueueLog, and the lock is free.
C16_Witness ==
    /\ \E t \in Tasks : pc[t] = "dispatch"
    /\ \E c \in Callers : pc[c] = "enqueueLog"
    /\ mutex = NoTask

\* The task is inside flushQueue.
Flushing(t) ==
    pc[t] \in {"flushQueue", "flush_lock", "flush_locked", "dispatch"}

\* C17 as claimed: no caller of a logging method is ever inside
\* flushQueue, whatever the method, Fatal and FatalContext included.
C17_Original == \A c \in Callers : ~Flushing(c)

\* C17 amended: a caller of a logging method is inside flushQueue only
\* when the method is Fatal or FatalContext, which flush before os.Exit;
\* every other dispatch is run by the flush goroutine or by a spawned one.
C17_OnlyFatalFlushesInline ==
    \A c \in Callers : Flushing(c) => IsFatal(c)

\* C17 witness: the caller of Fatal is sending a batch itself.
C17_Witness ==
    \E c \in Callers : pc[c] = "dispatch" /\ IsFatal(c)

\* The snapshots in the order they were taken, then the queue.
RECURSIVE FlatBatches(_)
FlatBatches(i) == IF i = 0 THEN <<>> ELSE FlatBatches(i - 1) \o batches[i]

AllRecords == FlatBatches(Len(batches)) \o queue

\* C18: the records are in the queue and in every snapshot in the order
\* of their appends, and a record appended earlier is in no later snapshot
\* than a record appended after it (a call of a caller returns after its
\* append, so the order of a caller's appends is that of its calls).
C18_OrderPreserved ==
    LET all == AllRecords IN
    \A k \in 1..(Len(all) - 1) : all[k].id < all[k + 1].id

\* C18 witness: a snapshot of two records was taken, and a second
\* snapshot with the record logged after them.
C18_Witness ==
    /\ Len(batches) = 2
    /\ Len(batches[1]) = 2
    /\ Len(batches[2]) = 1

\* How the flag is accessed: isOk is a plain bool field (logs.go:16), read
\* and written without sync/atomic and without a lock.
FlagAccess == "plain"

\* The next step of the task writes the flag (utils.go:23, utils.go:109).
WritesFlagNext(t) == pc[t] \in {"probing", "dispatch"}

\* The next step of the task can be a read of the flag by a facade method.
ReadsFlagNext(t) == t \in Callers /\ pc[t] = "idle"

\* C19: no two tasks can access the flag at the same time, one of them
\* writing, unless the accesses are atomic or under a lock.
C19_FlagAccessSynchronised ==
    (Running /\ FlagAccess = "plain") =>
        ~\E t, u \in Tasks :
            /\ t # u
            /\ WritesFlagNext(t)
            /\ WritesFlagNext(u) \/ ReadsFlagNext(u)

\* C20: an operation reads or writes the queue only while it holds the
\* queue lock, so never while another task is inside a critical section
\* of the lock; With and WithGroup read the slice header of the queue.
C20_QueueAccessLocked ==
    [][derived' # derived => mutex = NoTask]_vars

----------------------------------------------------------------------------

\* The step is the return of New to caller c.
NewReturns(c) == pc[c] = "New" /\ pc'[c] # "New"

\* C21: whatever the construction probe gives, New leaves the options
\* normalised: a non-positive heartbeat interval is 5 minutes, a
\* non-positive flush interval 5 seconds, a non-positive MaxBatchSize 100,
\* an unset health path the dispatch path; positive values and a health
\* path that is set are as the caller gave them.
C21_NewNormalisesOptions ==
    [][\A c \in Callers : NewReturns(c) =>
          /\ opts'.HeartbeatInterval =
                IF opts.HeartbeatInterval > 0
                THEN opts.HeartbeatInterval ELSE 300000
          /\ opts'.BatchInterval =
                IF opts.BatchInterval > 0 THEN opts.BatchInterval ELSE 5000
          /\ opts'.MaxBatchSize =
                IF opts.MaxBatchSize > 0 THEN opts.MaxBatchSize ELSE 100
          /\ opts'.HealthEndpoint =
                IF opts.HealthEndpoint # ""
                THEN opts.HealthEndpoint ELSE opts'.DispatchEndpoint
          /\ opts'.DispatchEndpoint # ""]_vars

\* C21 witness: New has returned after a failed probe with the default
\* heartbeat interval, batch size and health path, and the flush interval
\* of the caller.
C21_Witness ==
    /\ \A c \in Callers : pc[c] = "idle"
    /\ lastEv = "probe_fail"
    /\ url = ""
    /\ opts.HeartbeatInterval = 300000
    /\ opts.BatchInterval = 9
    /\ opts.MaxBatchSize = 100
    /\ opts.DispatchEndpoint = "/logs"
    /\ opts.HealthEndpoint = "/logs"

\* C22: once Close has closed stopChan on a logger whose construction
\* probe succeeded, the heartbeat goroutine and the flush goroutine both
\* end (or the process has ended); the flush goroutine ends by one
\* flushQueue started by the stopChan case, and a goroutine that has
\* taken the stopChan case starts no probe and no timer flush.
C22_GoroutinesTerminate ==
    /\ (stopClosed /\ pc[Flusher] # "none") ~>
          (~Running \/ (pc[Heartbeat] = "done" /\ pc[Flusher] = "done"))
    /\ [][/\ (pc[Flusher] # "done" /\ pc'[Flusher] = "done") =>
               (final /\ Flushing(Flusher))
          /\ (final /\ pc[Flusher] # "flushQueue") =>
               pc'[Flusher] \notin {"flushQueue", "select"}
          /\ final => pc'[Flusher] # "select"
          /\ pc[Heartbeat] = "done" => pc'[Heartbeat] = "done"
          /\ pc[Flusher] = "done" => pc'[Flusher] = "done"]_vars

\* C22 witness: after Close both goroutines have ended, the flush
\* goroutine after a final flush that sent a batch.
C22_Witness ==
    /\ Running
    /\ stopClosed
    /\ final
    /\ pc[Heartbeat] = "done"
    /\ pc[Flusher] = "done"
    /\ Len(batches) >= 1
    /\ atClose # {}

\* C23: a second call of Close on the same logger completes without a
\* runtime failure (the process never panics) and starts no second final
\* flush.
C23_SecondCloseHarmless ==
    /\ proc # "panicked"
    /\ pc[Flusher] = "done" => final

\* C24: with a URL and the flush goroutine running (stopChan open), a
\* record that is in the queue leaves the queue without any further call,
\* by the flush of the next tick at the latest, whatever the flag is (or
\* the process has ended).
C24_TimerFlushDrains ==
    \A id \in 1..MaxRecords :
        (id \in QueueIds /\ url # "" /\ pc[Flusher] # "none" /\ ~stopClosed)
            ~> (id \notin QueueIds \/ ~Running)

\* C24 witness: with the flag false after a transport failure, a tick of
\* the flush goroutine has drained a queue that was below MaxBatchSize
\* and the batch is being sent.
C24_Witness ==
    /\ ~isOk
    /\ lastEv = "dispatch_err"
    /\ ~stopClosed
    /\ pc[Flusher] = "dispatch"
    /\ Len(batches[cur[Flusher]]) < MaxBatchSize
    /\ Len(queue) = 0

\* The sequence holds the record of a Fatal call (the callers of Spec log
\* at ERROR through Fatal only).
HasFatal(q) == \E i \in 1..Len(q) : q[i].level = ERROR

\* C25: when a Fatal call that enqueued its record exits the process, the
\* dispatch of the batch that holds the record has completed: the record
\* is not in the queue and in no batch that a task is still sending.
C25_FatalDispatchedBeforeExit ==
    [][(proc = "running" /\ proc' = "exited" /\ url # "") =>
          /\ ~HasFatal(queue')
          /\ \A t \in Tasks :
                (pc[t] = "dispatch" /\ ~Dispatched(t)) =>
                    ~HasFatal(batches[cur[t]])]_vars

\* C26: the queue never holds more than MaxBatchSize records and no
\* snapshot handed to the dispatcher holds more than MaxBatchSize records.
C26_SizeBounded ==
    /\ Len(queue) <= opts.MaxBatchSize
    /\ \A i \in 1..Len(batches) : Len(batches[i]) <= opts.MaxBatchSize

\* The record is in a snapshot taken by some flush, after this step.
InBatchesNext(id) ==
    \E b \in 1..Len(batches') :
        \E j \in 1..Len(batches'[b]) : batches'[b][j].id = id

\* The step is the end of the critical section of a flushQueue that the
\* parent's flush goroutine runs (after a tick or after Close).
ParentFlushRuns == pc[Flusher] = "flush_locked" /\ pc'[Flusher] # "flush_locked"

\* C27: a record logged through a derived logger is drained by the
\* flushes of the parent's flush goroutine like a record of the parent:
\* once a flush started by a tick or by Close has run its critical
\* section, no record logged through a derived logger is left queued
\* without being in a snapshot.
C27_DerivedDrainedByParent ==
    [][ParentFlushRuns =>
          \A k \in 1..Len(derived') :
              \A i \in 1..Len(derived'[k].queue) :
                  derived'[k].queue[i].via # 0 =>
                      InBatchesNext(derived'[k].queue[i].id)]_vars

\* The step is an append by the parent: its queue is one longer.
ParentAppends == Appends /\ Len(queue') = Len(queue) + 1

\* C28: with a derived logger created while the parent has records
\* pending, no record is in two snapshots (dispatched twice), and an
\* append on one logger changes no record queued on another.
C28_NoDoubleDispatchNoOverwrite ==
    /\ [](\A id \in 1..MaxRecords : CountInBatches(id) <= 1)
    /\ [][Appends =>
            IF ParentAppends
            THEN \A k \in 1..Len(derived) :
                    derived'[k].queue = derived[k].queue
            ELSE queue' = queue]_vars

====
